---- MODULE Spec2Model ----
(***************************************************************************)
(* Pump Service Checklist: the form component (handleInputChange,          *)
(* handleCheckboxChange, handleSubmit, handleDownload, handleClosePreview) *)
(* and the document-generation pipeline generatePDF (loadImage, the        *)
(* document composer, the rendering-engine call), in its two variants:     *)
(*   "full"   src/utils/generatePDF.ts  15 checklist items, section stacks *)
(*   "single" src/unnamed/part_003       6 checklist items, one flow       *)
(*                                                                         *)
(* Strings.  SANY reads ASCII only.  A Thai literal of the source is       *)
(* written "[th] " followed by the English literal of the same pair, and   *)
(* the degree sign and the superscript three of the unit labels are        *)
(* written "deg" and "3".  Every pair of the source has two different      *)
(* strings, and so has every pair here.                                    *)
(*                                                                         *)
(* Numbers.  JavaScript numbers are doubles; the resize arithmetic is      *)
(* modelled in exact rationals [n |-> numerator, d |-> denominator].       *)
(***************************************************************************)
EXTENDS Integers, Sequences, FiniteSets, TLC

VARIABLES
  language,       \* useState<'en' | 'th'>
  formData,       \* useState<FormData>
  checkboxes,     \* useState({...15 flags})
  isPreviewOpen,  \* useState(false)
  pdfPreviewUrl,  \* useState<string | null>
  alerts,         \* the calls of alert(), in order
  objectUrls,     \* URL.createObjectURL / URL.revokeObjectURL of document blobs
  downloads,      \* the links handleDownload clicked: the href and its state then
  pdfMakeFonts,   \* the engine's global pdfMake.fonts
  req             \* the generatePDF calls: arguments, position, local values

vars == <<language, formData, checkboxes, isPreviewOpen, pdfPreviewUrl,
          alerts, objectUrls, downloads, pdfMakeFonts, req>>

uiVars == <<language, formData, checkboxes, isPreviewOpen, pdfPreviewUrl,
            alerts, objectUrls, downloads>>

-----------------------------------------------------------------------------
(* Bounds                                                                  *)

MaxRequests == 1     \* generate requests of the lifecycle specification
MaxFilled == 1       \* form fields that are non-empty at the same time
MaxChecked == 1      \* checklist flags that are true at the same time
MaxDim == 3          \* decoded image sides go up to 400 * MaxDim + 1
MaxRows == 7         \* body rows of the tables the rule set is applied to

-----------------------------------------------------------------------------
(* Types of the source                                                     *)

Language == {"en", "th"}

Other(lang) == IF lang = "en" THEN "th" ELSE "en"

FieldNames ==
  <<"company", "site_location", "contact_person", "department", "phone", "email",
    "pump_model", "serial_number", "manufacture_year", "operating_hours",
    "last_service_date", "installation_date",
    "temperature", "flow_rate", "suction_pressure", "discharge_pressure",
    "total_head", "pumped_medium",
    "service_reason", "training_hours">>

Fields == {FieldNames[i] : i \in 1..Len(FieldNames)}

\* the CheckboxId type of the form component
CheckboxId ==
  <<"system_flush", "safety_training", "harmless_form", "sds",
    "alignment_report", "operation_records",
    "power_isolation", "valves_locked", "pump_drained", "aux_systems",
    "coupling_guard", "coupling", "pump_cleaned", "openings_protected",
    "photos_taken">>

CheckboxIds == {CheckboxId[i] : i \in 1..Len(CheckboxId)}

\* the keys of interface Checkboxes that the composer reads, pre-service first
PreServiceKeys ==
  <<"system_flush", "safety_training", "harmless_form", "sds",
    "alignment_report", "operation_records">>

PumpPreparationKeys ==
  <<"power_isolated", "valves_locked", "pump_drained", "auxiliary_disconnected",
    "coupling_guard_removed", "coupling_disconnected", "pump_cleaned",
    "openings_protected", "photos_taken">>

\* the form control of each pump-preparation row (the Checkbox ids of the form,
\* in the order of the rows of the document)
PumpPreparationFormIds ==
  <<"power_isolation", "valves_locked", "pump_drained", "aux_systems",
    "coupling_guard", "coupling", "pump_cleaned", "openings_protected",
    "photos_taken">>

SeqToSet(s) == {s[i] : i \in 1..Len(s)}

InitialFormData == [f \in Fields |-> ""]

InitialCheckboxes == [c \in CheckboxIds |-> FALSE]

\* the six flags of interface Checkboxes of the single-flow variant
SingleCheckboxKeys == SeqToSet(PreServiceKeys)

-----------------------------------------------------------------------------
(* JavaScript values                                                       *)

\* a ? b : c and a || b on a string: the empty string is the only falsy string
Truthy(s) == s # ""

OrElse(s, dflt) == IF Truthy(s) THEN s ELSE dflt

\* obj.key on an object: a missing key reads undefined, which is falsy
Flag(obj, key) == IF key \in DOMAIN obj THEN obj[key] ELSE FALSE

-----------------------------------------------------------------------------
(* Bilingual string tables of generatePDF                                  *)

Th(en) == "[th] " \o en

Pair(en) == [en |-> en, th |-> Th(en)]

\* sectionTitles, by variant (the single-flow variant has no pump preparation
\* section and numbers the checklist 4)
sectionTitles(variant) ==
  IF variant = "full"
  THEN [customerDetails |-> Pair("1. Customer Details"),
        pumpInfo |-> Pair("2. Pump Information"),
        operatingConditions |-> Pair("3. Operating Conditions"),
        pumpPreparation |-> Pair("4. Pump Preparation (By Customer or WFA)"),
        preparationChecklist |-> Pair("5. Customer Preparation Checklist"),
        preServiceRequirements |-> Pair("Pre-Service Requirements"),
        importantNotes |-> Pair("Important Notes:")]
  ELSE [customerDetails |-> Pair("1. Customer Details"),
        pumpInfo |-> Pair("2. Pump Information"),
        operatingConditions |-> Pair("3. Operating Conditions"),
        preparationChecklist |-> Pair("4. Customer Preparation Checklist"),
        preServiceRequirements |-> Pair("Pre-Service Requirements"),
        importantNotes |-> Pair("Important Notes:")]

importantNotes(variant) ==
  IF variant = "full"
  THEN <<Pair("All work must be performed by qualified personnel only"),
         Pair("Follow all safety protocols and guidelines"),
         Pair("Maintain proper documentation throughout the service process"),
         Pair("Use only OEM parts or approved equivalents"),
         Pair("Follow all safety protocols, especially regarding magnetic coupling hazards"),
         Pair("Refer to manufacturer's manual for specific torque values and clearances"),
         Pair("Required for magnetic coupling handling - keep sensitive items at minimum 1m distance")>>
  ELSE <<Pair("All work must be performed by qualified personnel only"),
         Pair("Maintain proper documentation throughout the service process"),
         Pair("Use only OEM parts or approved equivalents"),
         Pair("Follow all safety protocols, especially regarding magnetic coupling hazards"),
         Pair("Refer to manufacturer's manual for specific torque values and clearances")>>

\* the date line: the full variant formats new Date() as dd.mm.yyyy (today is
\* that string), the single-flow variant prints a fixed date
FixedDate == "15.11.2024"

\* mutant: the revision line carries the clock too
docHeader_ClockInRevision(variant, today) ==
  [company |-> Pair("Water Field Asia Co., Ltd."),
   address1 |-> Pair("623 Soi Onnut 70/1 Sub 2"),
   address2 |-> Pair("Pravet Sub-District, Pravet District,"),
   address3 |-> Pair("Bangkok 10250"),
   phone |-> Pair("Tel.: +66 2320 1994"),
   docNo |-> Pair("Document No: FM-WFA-SER-057"),
   revision |-> [en |-> "Revision: " \o today, th |-> Th("Revision: ") \o today],
   date |-> LET d == IF variant = "full" THEN today ELSE FixedDate
            IN  [en |-> "Date: " \o d, th |-> Th("Date: ") \o d]]

docHeader(variant, today) ==
  [company |-> Pair("Water Field Asia Co., Ltd."),
   address1 |-> Pair("623 Soi Onnut 70/1 Sub 2"),
   address2 |-> Pair("Pravet Sub-District, Pravet District,"),
   address3 |-> Pair("Bangkok 10250"),
   phone |-> Pair("Tel.: +66 2320 1994"),
   docNo |-> Pair("Document No: FM-WFA-SER-057"),
   revision |-> Pair("Revision: 00"),
   date |-> LET d == IF variant = "full" THEN today ELSE FixedDate
            IN  [en |-> "Date: " \o d, th |-> Th("Date: ") \o d]]

translations ==
  [company |-> Pair("Company:"),
   siteLocation |-> Pair("Site Location:"),
   contactPerson |-> Pair("Contact Person:"),
   department |-> Pair("Department:"),
   phone |-> Pair("Phone:"),
   email |-> Pair("Email:"),
   pumpModel |-> Pair("Pump Model:"),
   serialNumber |-> Pair("Serial Number:"),
   yearOfManufacture |-> Pair("Year of Manufacture:"),
   operatingHours |-> Pair("Operating Hours:"),
   lastServiceDate |-> Pair("Last Service Date:"),
   installationDate |-> Pair("Installation Date:"),
   temperature |-> Pair("Temperature (degC):"),
   flowRate |-> Pair("Flow Rate (m3/h):"),
   suctionPressure |-> Pair("Suction Pressure (bar):"),
   dischargePressure |-> Pair("Discharge Pressure (bar):"),
   totalHead |-> Pair("Total Head (m):"),
   pumpedMedium |-> Pair("Pumped Medium:"),
   serviceReason |-> Pair("Description of Issues/Reason for Service:")]

\* the title of the single-flow variant (info.title and the title block)
documentTitle == Pair("Pump Service Checklist")

\* the unit word of the training hours: 'hours' and its Thai counterpart
unitWord(lang) == IF lang = "en" THEN "hours" ELSE Th("hours")

\* mutant: the parenthetical is written whatever training_hours is
trainingSuffix_Always(lang, training_hours) ==
  "(" \o training_hours \o " " \o unitWord(lang) \o ")"

\* ${formData.training_hours ? `(${formData.training_hours} hours)` : ''}
trainingSuffix(lang, training_hours) ==
  IF Truthy(training_hours)
  THEN "(" \o training_hours \o " " \o unitWord(lang) \o ")"
  ELSE ""

\* the label of each checklist row: language === 'en' ? <en> : <th>

checklistLabel(key, lang, fd) ==
  LET pick(en) == IF lang = "en" THEN en ELSE Th(en)
  IN CASE key = "system_flush" ->
            pick("System flushed (if hazardous/hardening materials)")
       [] key = "safety_training" ->
            pick("Safety Training required? ") \o trainingSuffix(lang, fd.training_hours)
       [] key = "harmless_form" ->
            pick("Declaration of Harmlessness form (in the operation manual)")
       [] key = "sds" -> pick("Safety Data Sheet (SDS) available")
       [] key = "alignment_report" -> pick("Alignment report available")
       [] key = "operation_records" -> pick("Operation records available")
       [] key = "power_isolated" ->
            pick("Pump isolated from power supply (customer responsibility)")
       [] key = "valves_locked" ->
            pick("Suction/discharge valves locked (customer responsibility)")
       [] key = "pump_drained" -> pick("Pump drained (customer responsibility)")
       [] key = "auxiliary_disconnected" ->
            pick("Auxiliary systems disconnected (e.g., external sensors)")
       [] key = "coupling_guard_removed" -> pick("Coupling guard removed")
       [] key = "coupling_disconnected" -> pick("Coupling disconnected")
       [] key = "pump_cleaned" -> pick("Pump cleaned externally")
       [] key = "openings_protected" -> pick("All openings protected")
       [] key = "photos_taken" -> pick("Photographs taken (if possible)")

-----------------------------------------------------------------------------
(* createCheckboxItem                                                      *)

box ==
  [type |-> "rect", x |-> 0, y |-> 0, w |-> 10, h |-> 10,
   lineWidth |-> "1", lineColor |-> "#374151"]

\* mutant: the second segment ends at (8,3)
checkmark_Shifted(checked) ==
  IF checked
  THEN <<[type |-> "line", x1 |-> 2, y1 |-> 5, x2 |-> 4, y2 |-> 8,
          lineWidth |-> "1.5", lineColor |-> "#1F2937"],
         [type |-> "line", x1 |-> 4, y1 |-> 8, x2 |-> 8, y2 |-> 3,
          lineWidth |-> "1.5", lineColor |-> "#1F2937"]>>
  ELSE <<>>

checkmark(checked) ==
  IF checked
  THEN <<[type |-> "line", x1 |-> 2, y1 |-> 5, x2 |-> 4, y2 |-> 8,
          lineWidth |-> "1.5", lineColor |-> "#1F2937"],
         [type |-> "line", x1 |-> 4, y1 |-> 8, x2 |-> 8, y2 |-> 2,
          lineWidth |-> "1.5", lineColor |-> "#1F2937"]>>
  ELSE <<>>

createCheckboxItem(checked, text) ==
  [kind |-> "columns",
   columns |-> <<[width |-> "12", canvas |-> <<box>> \o checkmark(checked)],
                 [width |-> "auto", text |-> text]>>]

\* mutant: the last item of a group has no row
checkboxRows_DropLast(keys, cb, lang, fd) ==
  [i \in 1..(Len(keys) - 1) |->
     createCheckboxItem(Flag(cb, keys[i]), checklistLabel(keys[i], lang, fd))]

\* the rows of a checklist group, one per key, in the order of the source
checkboxRows(keys, cb, lang, fd) ==
  [i \in 1..Len(keys) |->
     createCheckboxItem(Flag(cb, keys[i]), checklistLabel(keys[i], lang, fd))]

preServiceChecklist(cb, lang, fd) == checkboxRows(PreServiceKeys, cb, lang, fd)

-----------------------------------------------------------------------------
(* The document tree.  A block is a record tagged by kind, the key that    *)
(* makes it that block in the source (text, table, stack, columns, canvas, *)
(* image, ul).  Margins, fit and alignment, which nothing reads, are left  *)
(* out; widths are kept as the strings of their literals.                  *)

TextBlock(text, style) == [kind |-> "text", text |-> text, style |-> style]

\* a text block without a style key
PlainText(text) == [kind |-> "text", text |-> text]

ImageBlock(image) == [kind |-> "image", image |-> image]

StackBlock(stack) == [kind |-> "stack", stack |-> stack]

\* mutant: a section lists its blocks last to first
Section_Reversed(stack) ==
  [kind |-> "stack", unbreakable |-> TRUE,
   stack |-> [i \in 1..Len(stack) |-> stack[Len(stack) + 1 - i]]]

\* { unbreakable: true, stack: [...] }, the sections of the full variant
Section(stack) == [kind |-> "stack", unbreakable |-> TRUE, stack |-> stack]

ColumnsBlock(columns) == [kind |-> "columns", columns |-> columns]

ListBlock(items) == [kind |-> "ul", ul |-> items, style |-> "list"]

\* layout: 'lightHorizontalLines', the name of a layout
LayoutName == [by |-> "name", name |-> "lightHorizontalLines"]

\* tableLayout.lightHorizontalLines, the rule set built by generatePDF
tableLayout ==
  [lightHorizontalLines |->
     [by |-> "object", hLineColor |-> "#E5E7EB", vLineWidth |-> 0,
      paddingLeft |-> 0, paddingRight |-> 0, paddingTop |-> 8, paddingBottom |-> 8]]

\* mutant: the value cell without the placeholder
keyValueRow_NoPlaceholder(label, value) ==
  <<[text |-> label, style |-> "label"], [text |-> value]>>

\* [{ text: label, style: 'label' }, { text: value || '-' }]
keyValueRow(label, value) ==
  <<[text |-> label, style |-> "label"], [text |-> OrElse(value, "-")]>>

TableBlock(body) ==
  [kind |-> "table", layout |-> LayoutName,
   table |-> [widths |-> <<"30%", "70%">>, headerRows |-> 0, body |-> body]]

customerDetailsTable(fd, lang) ==
  TableBlock(<<keyValueRow(translations.company[lang], fd.company),
               keyValueRow(translations.siteLocation[lang], fd.site_location),
               keyValueRow(translations.contactPerson[lang], fd.contact_person),
               keyValueRow(translations.department[lang], fd.department),
               keyValueRow(translations.phone[lang], fd.phone),
               keyValueRow(translations.email[lang], fd.email)>>)

pumpInfoTable(fd, lang) ==
  TableBlock(<<keyValueRow(translations.pumpModel[lang], fd.pump_model),
               keyValueRow(translations.serialNumber[lang], fd.serial_number),
               keyValueRow(translations.yearOfManufacture[lang], fd.manufacture_year),
               keyValueRow(translations.operatingHours[lang], fd.operating_hours),
               keyValueRow(translations.lastServiceDate[lang], fd.last_service_date),
               keyValueRow(translations.installationDate[lang], fd.installation_date)>>)

operatingConditionsTable(fd, lang) ==
  TableBlock(<<keyValueRow(translations.temperature[lang], fd.temperature),
               keyValueRow(translations.flowRate[lang], fd.flow_rate),
               keyValueRow(translations.suctionPressure[lang], fd.suction_pressure),
               keyValueRow(translations.dischargePressure[lang], fd.discharge_pressure),
               keyValueRow(translations.totalHead[lang], fd.total_head),
               keyValueRow(translations.pumpedMedium[lang], fd.pumped_medium)>>)

\* the label and the paragraph of the service-reason narrative
serviceReasonBlocks(fd, lang) ==
  <<TextBlock(translations.serviceReason[lang], "label"),
    PlainText(OrElse(fd.service_reason, "-"))>>

\* mutant: the notes always in English
notesList_English(variant, lang) ==
  LET notes == importantNotes(variant)
  IN  ListBlock([i \in 1..Len(notes) |-> notes[i]["en"]])

notesList(variant, lang) ==
  LET notes == importantNotes(variant)
  IN  ListBlock([i \in 1..Len(notes) |-> notes[i][lang]])

\* docDefinition.content of src/utils/generatePDF.ts
contentFull(fd, cb, lang, logoBase64, qrBase64, today) ==
  LET hdr == docHeader("full", today)
      titles == sectionTitles("full")
  IN
  <<ColumnsBlock(<<
      [width |-> "*",
       stack |-> <<ImageBlock(logoBase64),
                   TextBlock(hdr.company[lang], "headerCompany"),
                   TextBlock(hdr.address1[lang], "headerAddress"),
                   TextBlock(hdr.address2[lang], "headerAddress"),
                   TextBlock(hdr.address3[lang], "headerAddress"),
                   TextBlock(hdr.phone[lang], "headerAddress")>>],
      [width |-> "auto",
       stack |-> <<StackBlock(<<TextBlock(hdr.docNo[lang], "headerDoc"),
                                TextBlock(hdr.revision[lang], "headerDoc"),
                                TextBlock(hdr.date[lang], "headerDoc")>>),
                   ImageBlock(qrBase64)>>]>>),
    Section(<<TextBlock(titles.customerDetails[lang], "sectionHeader"),
              customerDetailsTable(fd, lang)>>),
    Section(<<TextBlock(titles.pumpInfo[lang], "sectionHeader"),
              pumpInfoTable(fd, lang)>>),
    Section(<<TextBlock(titles.operatingConditions[lang], "sectionHeader"),
              operatingConditionsTable(fd, lang)>> \o serviceReasonBlocks(fd, lang)),
    Section(<<TextBlock(titles.pumpPreparation[lang], "sectionHeader"),
              StackBlock(checkboxRows(PumpPreparationKeys, cb, lang, fd))>>),
    Section(<<TextBlock(titles.preparationChecklist[lang], "sectionHeader"),
              StackBlock(preServiceChecklist(cb, lang, fd))>>),
    Section(<<TextBlock(titles.importantNotes[lang], "subHeader"),
              notesList("full", lang)>>)>>

\* docDefinition.content of src/unnamed/part_003
contentSingle(fd, cb, lang, logoBase64, qrBase64) ==
  LET hdr == docHeader("single", FixedDate)
      titles == sectionTitles("single")
  IN
  <<ColumnsBlock(<<
      [width |-> "200", image |-> logoBase64],
      [width |-> "*",
       stack |-> <<TextBlock(hdr.company[lang], "headerCompany"),
                   TextBlock(hdr.address1[lang], "headerAddress"),
                   TextBlock(hdr.address2[lang], "headerAddress"),
                   TextBlock(hdr.address3[lang], "headerAddress"),
                   TextBlock(hdr.phone[lang], "headerAddress")>>],
      [width |-> "auto",
       stack |-> <<TextBlock(hdr.docNo[lang], "headerDoc"),
                   TextBlock(hdr.revision[lang], "headerDoc"),
                   TextBlock(hdr.date[lang], "headerDoc"),
                   ImageBlock(qrBase64)>>]>>),
    [kind |-> "canvas",
     canvas |-> <<[type |-> "rect", x |-> 0, y |-> 0, w |-> 515, h |-> 40,
                   r |-> 4, color |-> "#F3F4F6"]>>],
    TextBlock(documentTitle[lang], "title"),
    TextBlock(titles.customerDetails[lang], "sectionHeader"),
    customerDetailsTable(fd, lang),
    TextBlock(titles.pumpInfo[lang], "sectionHeader"),
    pumpInfoTable(fd, lang),
    TextBlock(titles.operatingConditions[lang], "sectionHeader"),
    operatingConditionsTable(fd, lang)>>
  \o serviceReasonBlocks(fd, lang)
  \o <<TextBlock(titles.preparationChecklist[lang], "sectionHeader"),
       TextBlock(titles.preServiceRequirements[lang], "subHeader")>>
  \o preServiceChecklist(cb, lang, fd)
  \o <<TextBlock(titles.importantNotes[lang], "subHeader"),
       notesList("single", lang)>>

\* content.forEach(item => { if ('table' in item) item.layout = tableLayout... })
applyTableLayout(content) ==
  [i \in 1..Len(content) |->
     IF "table" \in DOMAIN content[i]
     THEN [content[i] EXCEPT !.layout = tableLayout.lightHorizontalLines]
     ELSE content[i]]

\* the docDefinition handed to pdfMake.createPdf, after the post-pass
docDefinition(variant, fd, cb, lang, logoBase64, qrBase64, today) ==
  IF variant = "full"
  THEN [pageSize |-> "A4",
        defaultStyle |-> [font |-> "Roboto", fontSize |-> 11],
        content |-> applyTableLayout(
                      contentFull(fd, cb, lang, logoBase64, qrBase64, today))]
  ELSE [info |-> [title |-> documentTitle[lang],
                  author |-> "Water Field Asia Co., Ltd.",
                  subject |-> sectionTitles("single").preServiceRequirements[lang],
                  keywords |-> "pump, service, checklist"],
        pageSize |-> "A4",
        defaultStyle |-> [font |-> IF lang = "en" THEN "Roboto" ELSE "THSarabunNew",
                          fontSize |-> IF lang = "en" THEN 11 ELSE 13],
        content |-> applyTableLayout(
                      contentSingle(fd, cb, lang, logoBase64, qrBase64))]

-----------------------------------------------------------------------------
(* loadImage: the resize arithmetic                                        *)

maxImageSize == 500 * 1024

RECURSIVE Gcd(_, _)
Gcd(a, b) == IF b = 0 THEN a ELSE Gcd(b, a % b)

\* the rational n/d in lowest terms, d > 0
Rat(n, d) == LET g == Gcd(n, d) IN [n |-> n \div g, d |-> d \div g]

Num(k) == [n |-> k, d |-> 1]

RatDiv(a, b) == Rat(a.n * b.d, a.d * b.n)

RatMul(a, b) == Rat(a.n * b.n, a.d * b.d)

\* a > k for a rational a and an integer k
RatGT(a, k) == a.n > k * a.d

\* the long that a canvas side is set to: the fraction is dropped
ToLong(a) == a.n \div a.d

\* mutant: a rule above the first row
hLineWidth_RuleOnTop(i, node) ==
  IF i = Len(node.table.body) THEN Num(0) ELSE Rat(1, 2)

\* tableLayout.lightHorizontalLines.hLineWidth, the one rule of the set that
\* depends on its arguments: i === 0 || i === node.table.body.length ? 0 : 0.5
hLineWidth(i, node) ==
  IF i = 0 \/ i = Len(node.table.body) THEN Num(0) ELSE Rat(1, 2)

\* mutant: each side is capped on its own
resize_EachSide(imgWidth, imgHeight) ==
  [width |-> IF imgWidth > 800 THEN Num(800) ELSE Num(imgWidth),
   height |-> IF imgHeight > 800 THEN Num(800) ELSE Num(imgHeight)]

\* mutant: the height is not capped
resize_WidthOnly(imgWidth, imgHeight) ==
  LET aspectRatio == RatDiv(Num(imgWidth), Num(imgHeight))
      width1 == IF imgWidth > 800 THEN Num(800) ELSE Num(imgWidth)
      height1 == IF imgWidth > 800 THEN RatDiv(width1, aspectRatio) ELSE Num(imgHeight)
  IN  [width |-> width1, height |-> height1]

\* img.onload, lines "let width = img.width" to "width = height * aspectRatio"
resize(imgWidth, imgHeight) ==
  LET aspectRatio == RatDiv(Num(imgWidth), Num(imgHeight))
      width1 == IF imgWidth > 800 THEN Num(800) ELSE Num(imgWidth)
      height1 == IF imgWidth > 800 THEN RatDiv(width1, aspectRatio) ELSE Num(imgHeight)
      height2 == IF RatGT(height1, 800) THEN Num(800) ELSE height1
      width2 == IF RatGT(height1, 800) THEN RatMul(height2, aspectRatio) ELSE width1
  IN  [width |-> width2, height |-> height2]

\* mutant: a blob of exactly maxImageSize bytes is resized
tooLarge_Inclusive(size) == size >= maxImageSize

\* if (blob.size > maxImageSize): the resize path
tooLarge(size) == size > maxImageSize

-----------------------------------------------------------------------------
(* Payloads and loads                                                      *)

Images == {"logo", "qr"}

ImageUrl == [logo |-> "/Logo.png", qr |-> "/QR.jpeg"]

\* the Blob of response.blob(): the bytes served at url, size of them
FetchedBlob(url, size) == [url |-> url, size |-> size]

NoBlob == [url |-> "", size |-> 0]

\* the promise of loadImage is not settled
Pending == [kind |-> "pending"]

\* resolve('')
EmptyPayload == [kind |-> "empty"]

\* reader.readAsDataURL(blob): the base64 data URL of the bytes of blob
readAsDataURL(blob) == [kind |-> "dataurl", bytes |-> blob]

\* canvas.toDataURL('image/jpeg', 0.7) of a canvas the image was drawn on
toDataURL(blob, canvasWidth, canvasHeight, drawn) ==
  [kind |-> "jpeg", quality |-> "0.7", source |-> blob,
   canvasWidth |-> canvasWidth, canvasHeight |-> canvasHeight,
   drawWidth |-> drawn.width, drawHeight |-> drawn.height]

\* one call of loadImage
\*   pc: none | fetching | rejected | reading | decoding | undecodable | resolved
NoLoad ==
  [pc |-> "none", blob |-> NoBlob, imgWidth |-> 0, imgHeight |-> 0,
   hasContext |-> FALSE, result |-> Pending]

Settled(load) == load.pc \in {"resolved", "rejected"}

\* mutant: the first payload is enough
bothLoaded_Race(loads) == \E i \in Images : loads[i].pc = "resolved"

\* Promise.all settles as fulfilled: both payloads are there
bothLoaded(loads) == \A i \in Images : loads[i].pc = "resolved"

-----------------------------------------------------------------------------
(* The generatePDF calls                                                   *)

NoDoc == [pageSize |-> "", content |-> <<>>]

\* pc: idle | loading | rendering | resolved | failed
\* engine: the callback of getBlob is "none" (not asked), "pending" (to come)
\*         or "silent" (the engine never calls it)
\* fonts: pdfMake.fonts as createPdf read it
IdleRequest ==
  [pc |-> "idle", caller |-> "", variant |-> "",
   formData |-> InitialFormData, checkboxes |-> InitialCheckboxes, language |-> "en",
   loads |-> [i \in Images |-> NoLoad],
   engine |-> "none", today |-> "", doc |-> NoDoc, fonts |-> {}]

Requests == DOMAIN req

NoUrl == 0

\* entering generatePDF in a browser: the full variant registers its fonts
\* first; both variants then call loadImage twice, and each call runs up to
\* its first await, the fetch
enterGeneratePDF(r, caller, variant, fd, cb, lang) ==
  /\ req[r].pc = "idle"
  /\ \A q \in Requests : q < r => req[q].pc # "idle"
  /\ req' = [req EXCEPT ![r] =
               [IdleRequest EXCEPT
                  !.pc = "loading", !.caller = caller, !.variant = variant,
                  !.formData = fd, !.checkboxes = cb, !.language = lang,
                  !.loads = [i \in Images |-> [NoLoad EXCEPT !.pc = "fetching"]]]]
  /\ pdfMakeFonts' = IF variant = "full" THEN {"Roboto"} ELSE pdfMakeFonts

\* generatePDF rejects: the catch of handleSubmit shows the notice in the
\* language handleSubmit was rendered with; another caller gets the error
notify(r) ==
  alerts' = IF req[r].caller = "form"
            THEN Append(alerts, [request |-> r, language |-> req[r].language])
            ELSE alerts

-----------------------------------------------------------------------------
(* The form component.  The preview is a modal dialog: while it is open    *)
(* the form under it takes no input, and its buttons exist only then.      *)

handleInputChange(name, value) ==
  /\ ~isPreviewOpen
  /\ formData' = [formData EXCEPT ![name] = value]
  /\ UNCHANGED <<language, checkboxes, isPreviewOpen, pdfPreviewUrl, alerts,
                 objectUrls, downloads, pdfMakeFonts, req>>

handleCheckboxChange(id) ==
  /\ ~isPreviewOpen
  /\ checkboxes' = [checkboxes EXCEPT ![id] = ~checkboxes[id]]
  /\ UNCHANGED <<language, formData, isPreviewOpen, pdfPreviewUrl, alerts,
                 objectUrls, downloads, pdfMakeFonts, req>>

changeLanguage(lang) ==
  /\ ~isPreviewOpen
  /\ language' = lang
  /\ UNCHANGED <<formData, checkboxes, isPreviewOpen, pdfPreviewUrl, alerts,
                 objectUrls, downloads, pdfMakeFonts, req>>

\* handleSubmit up to its await: generatePDF(formData, checkboxes, language)
\* of src/utils/generatePDF.ts, called with the state of this render
handleSubmit(r) ==
  /\ ~isPreviewOpen
  /\ enterGeneratePDF(r, "form", "full", formData, checkboxes, language)
  /\ UNCHANGED uiVars

\* generatePDF called by another caller, on either variant
generatePDF(r, variant, fd, cb, lang) ==
  /\ enterGeneratePDF(r, "direct", variant, fd, cb, lang)
  /\ UNCHANGED uiVars

\* mutant: the fonts are registered before the test of window
returnNull_RegistersFonts(r, caller, variant, fd, cb, lang) ==
  /\ req[r].pc = "idle"
  /\ \A q \in Requests : q < r => req[q].pc # "idle"
  /\ req' = [req EXCEPT ![r] =
               [IdleRequest EXCEPT
                  !.pc = "null", !.caller = caller, !.variant = variant,
                  !.formData = fd, !.checkboxes = cb, !.language = lang]]
  /\ pdfMakeFonts' = IF variant = "full" THEN {"Roboto"} ELSE pdfMakeFonts

\* generatePDF where there is no window: if (typeof window === 'undefined')
\* return null, the first statement of both variants, before the try
returnNull(r, caller, variant, fd, cb, lang) ==
  /\ req[r].pc = "idle"
  /\ \A q \in Requests : q < r => req[q].pc # "idle"
  /\ req' = [req EXCEPT ![r] =
               [IdleRequest EXCEPT
                  !.pc = "null", !.caller = caller, !.variant = variant,
                  !.formData = fd, !.checkboxes = cb, !.language = lang]]
  /\ pdfMakeFonts' = pdfMakeFonts

\* handleSubmit up to its await, where there is no window
handleSubmitNoWindow(r) ==
  /\ ~isPreviewOpen
  /\ returnNull(r, "form", "full", formData, checkboxes, language)
  /\ UNCHANGED uiVars

\* generatePDF called by another caller where there is no window
generatePDFNoWindow(r, variant, fd, cb, lang) ==
  /\ returnNull(r, "direct", variant, fd, cb, lang)
  /\ UNCHANGED uiVars

\* mutant: a null result is taken for a failure
skipPreview_Notifies(r) ==
  /\ req[r].pc = "null"
  /\ req[r].caller = "form"
  /\ req' = [req EXCEPT ![r].pc = "resolvedNull"]
  /\ notify(r)
  /\ UNCHANGED <<language, formData, checkboxes, isPreviewOpen, pdfPreviewUrl,
                 objectUrls, downloads, pdfMakeFonts>>

\* handleSubmit after its await, on null: if (pdfBlob) is false, and nothing
\* was thrown
skipPreview(r) ==
  /\ req[r].pc = "null"
  /\ req[r].caller = "form"
  /\ req' = [req EXCEPT ![r].pc = "resolvedNull"]
  /\ UNCHANGED <<uiVars, pdfMakeFonts>>

\* mutant: the first URL made is kept and shown again
showPreview_ReusesFirstUrl(r) ==
  IF req[r].caller = "form"
  THEN LET made == {q \in DOMAIN objectUrls : objectUrls[q] # "none"}
       IN  /\ objectUrls' = IF made = {} THEN [objectUrls EXCEPT ![r] = "live"]
                            ELSE objectUrls
           /\ pdfPreviewUrl' = IF made = {} THEN r ELSE CHOOSE q \in made : TRUE
           /\ isPreviewOpen' = TRUE
  ELSE UNCHANGED <<objectUrls, pdfPreviewUrl, isPreviewOpen>>

\* mutant: a preview that is open keeps the document it shows
showPreview_KeepsShown(r) ==
  IF req[r].caller = "form"
  THEN /\ objectUrls' = [objectUrls EXCEPT ![r] = "live"]
       /\ pdfPreviewUrl' = IF isPreviewOpen THEN pdfPreviewUrl ELSE r
       /\ isPreviewOpen' = TRUE
  ELSE UNCHANGED <<objectUrls, pdfPreviewUrl, isPreviewOpen>>

\* handleSubmit after its await, on a blob
showPreview(r) ==
  IF req[r].caller = "form"
  THEN /\ objectUrls' = [objectUrls EXCEPT ![r] = "live"]
       /\ pdfPreviewUrl' = r
       /\ isPreviewOpen' = TRUE
  ELSE UNCHANGED <<objectUrls, pdfPreviewUrl, isPreviewOpen>>

\* mutant: the URL is revoked but stays in the state
handleClosePreview_KeepsUrl ==
  /\ isPreviewOpen
  /\ isPreviewOpen' = FALSE
  /\ IF pdfPreviewUrl # NoUrl
     THEN objectUrls' = [objectUrls EXCEPT ![pdfPreviewUrl] = "revoked"]
     ELSE UNCHANGED objectUrls
  /\ UNCHANGED <<pdfPreviewUrl, language, formData, checkboxes, alerts, downloads,
                 pdfMakeFonts, req>>

\* handleClosePreview, the Close button and the dialog's onOpenChange
handleClosePreview ==
  /\ isPreviewOpen
  /\ isPreviewOpen' = FALSE
  /\ IF pdfPreviewUrl # NoUrl
     THEN /\ objectUrls' = [objectUrls EXCEPT ![pdfPreviewUrl] = "revoked"]
          /\ pdfPreviewUrl' = NoUrl
     ELSE UNCHANGED <<objectUrls, pdfPreviewUrl>>
  /\ UNCHANGED <<language, formData, checkboxes, alerts, downloads, pdfMakeFonts, req>>

\* handleDownload, the button of the preview: a link to pdfPreviewUrl is
\* clicked when there is one
handleDownload ==
  /\ isPreviewOpen
  /\ downloads' = IF pdfPreviewUrl # NoUrl
                  THEN downloads \cup {[href |-> pdfPreviewUrl,
                                        state |-> objectUrls[pdfPreviewUrl]]}
                  ELSE downloads
  /\ UNCHANGED <<language, formData, checkboxes, isPreviewOpen, pdfPreviewUrl,
                 alerts, objectUrls, pdfMakeFonts, req>>

-----------------------------------------------------------------------------
(* loadImage, one action per callback                                      *)

\* await fetch(url), await response.blob(), and the branch on blob.size: the
\* resize branch sets img.src and waits for onload, the other starts a
\* FileReader
fetchResolve(r, i, size) ==
  /\ req[r].loads[i].pc = "fetching"
  /\ req' = [req EXCEPT ![r].loads[i] =
               [@ EXCEPT !.blob = FetchedBlob(ImageUrl[i], size),
                         !.pc = IF tooLarge(size) THEN "decoding" ELSE "reading"]]
  /\ UNCHANGED <<uiVars, pdfMakeFonts>>

\* mutant: every failed fetch reaches the catch of handleSubmit
fetchReject_EachNotifies(r, i) ==
  /\ req[r].loads[i].pc = "fetching"
  /\ req' = [req EXCEPT ![r].loads[i].pc = "rejected", ![r].pc = "failed"]
  /\ notify(r)
  /\ UNCHANGED <<language, formData, checkboxes, isPreviewOpen, pdfPreviewUrl,
                 objectUrls, downloads, pdfMakeFonts>>

\* mutant: a failed fetch fails the call only while the other load is not done
fetchReject_OtherLoadDecides(r, i) ==
  /\ req[r].loads[i].pc = "fetching"
  /\ IF req[r].pc = "loading"
        /\ \A j \in Images \ {i} : req[r].loads[j].pc # "resolved"
     THEN /\ req' = [req EXCEPT ![r].loads[i].pc = "rejected", ![r].pc = "failed"]
          /\ notify(r)
     ELSE /\ req' = [req EXCEPT ![r].loads[i].pc = "rejected"]
          /\ UNCHANGED alerts
  /\ UNCHANGED <<language, formData, checkboxes, isPreviewOpen, pdfPreviewUrl,
                 objectUrls, downloads, pdfMakeFonts>>

\* fetch rejects: loadImage rejects, and Promise.all with it unless it has
\* rejected already; generatePDF rethrows to its caller
fetchReject(r, i) ==
  /\ req[r].loads[i].pc = "fetching"
  /\ IF req[r].pc = "loading"
     THEN /\ req' = [req EXCEPT ![r].loads[i].pc = "rejected", ![r].pc = "failed"]
          /\ notify(r)
     ELSE /\ req' = [req EXCEPT ![r].loads[i].pc = "rejected"]
          /\ UNCHANGED alerts
  /\ UNCHANGED <<language, formData, checkboxes, isPreviewOpen, pdfPreviewUrl,
                 objectUrls, downloads, pdfMakeFonts>>

\* reader.onloadend
readerLoadEnd(r, i) ==
  /\ req[r].loads[i].pc = "reading"
  /\ LET load == req[r].loads[i]
     IN req' = [req EXCEPT ![r].loads[i] =
                  [load EXCEPT !.pc = "resolved", !.result = readAsDataURL(load.blob)]]
  /\ UNCHANGED <<uiVars, pdfMakeFonts>>

\* img.onload, for an image decoded to imgWidth x imgHeight; hasContext is
\* whether canvas.getContext('2d') gives a context
imgOnload(r, i, imgWidth, imgHeight, hasContext) ==
  /\ req[r].loads[i].pc = "decoding"
  /\ LET target == resize(imgWidth, imgHeight)
         load == req[r].loads[i]
     IN req' = [req EXCEPT ![r].loads[i] =
                  [load EXCEPT !.pc = "resolved",
                            !.imgWidth = imgWidth, !.imgHeight = imgHeight,
                            !.hasContext = hasContext,
                            !.result =
                               IF hasContext
                               THEN toDataURL(load.blob, ToLong(target.width),
                                              ToLong(target.height), target)
                               ELSE EmptyPayload]]
  /\ UNCHANGED <<uiVars, pdfMakeFonts>>

\* the image cannot be decoded: the error event finds no handler (only
\* img.onload is set) and the promise of loadImage is never settled
imgOnerror(r, i) ==
  /\ req[r].loads[i].pc = "decoding"
  /\ req' = [req EXCEPT ![r].loads[i].pc = "undecodable"]
  /\ UNCHANGED <<uiVars, pdfMakeFonts>>

-----------------------------------------------------------------------------
(* generatePDF after Promise.all                                           *)

\* what the rendering engine does with createPdf(...).getBlob(callback)
EngineOutcomes == {"callback", "throws", "silent"}

\* mutant: the tree is built in the language the form shows when the loads
\* complete, not the language the call was given
compose_ReadsFormState(r, today, outcome) ==
  /\ req[r].pc = "loading"
  /\ bothLoaded(req[r].loads)
  /\ pdfMakeFonts' = IF req[r].variant = "single"
                     THEN {"Roboto", "THSarabunNew"}
                     ELSE pdfMakeFonts
  /\ LET doc == docDefinition(req[r].variant, req[r].formData, req[r].checkboxes,
                              language, req[r].loads["logo"].result,
                              req[r].loads["qr"].result, today)
     IN req' = [req EXCEPT ![r] =
                  [@ EXCEPT !.doc = doc, !.today = today,
                            !.fonts = IF req[r].variant = "single"
                                      THEN {"Roboto", "THSarabunNew"}
                                      ELSE pdfMakeFonts,
                            !.pc = IF outcome = "throws" THEN "failed" ELSE "rendering",
                            !.engine = IF outcome = "callback" THEN "pending"
                                       ELSE IF outcome = "silent" THEN "silent"
                                       ELSE "threw"]]
  /\ IF outcome = "throws" THEN notify(r) ELSE UNCHANGED alerts
  /\ UNCHANGED <<language, formData, checkboxes, isPreviewOpen, pdfPreviewUrl,
                 objectUrls, downloads>>

\* the continuation of await Promise.all(...): the single-flow variant
\* registers its fonts here; the tree is built and post-passed, and
\* createPdf(docDefinition).getBlob(...) is called
compose(r, today, outcome) ==
  /\ req[r].pc = "loading"
  /\ bothLoaded(req[r].loads)
  /\ pdfMakeFonts' = IF req[r].variant = "single"
                     THEN {"Roboto", "THSarabunNew"}
                     ELSE pdfMakeFonts
  /\ LET doc == docDefinition(req[r].variant, req[r].formData, req[r].checkboxes,
                              req[r].language, req[r].loads["logo"].result,
                              req[r].loads["qr"].result, today)
     IN req' = [req EXCEPT ![r] =
                  [@ EXCEPT !.doc = doc, !.today = today,
                            !.fonts = IF req[r].variant = "single"
                                      THEN {"Roboto", "THSarabunNew"}
                                      ELSE pdfMakeFonts,
                            !.pc = IF outcome = "throws" THEN "failed" ELSE "rendering",
                            !.engine = IF outcome = "callback" THEN "pending"
                                       ELSE IF outcome = "silent" THEN "silent"
                                       ELSE "threw"]]
  /\ IF outcome = "throws" THEN notify(r) ELSE UNCHANGED alerts
  /\ UNCHANGED <<language, formData, checkboxes, isPreviewOpen, pdfPreviewUrl,
                 objectUrls, downloads>>

\* the callback of getBlob: resolve(blob), and handleSubmit goes on
getBlobCallback(r) ==
  /\ req[r].pc = "rendering"
  /\ req[r].engine = "pending"
  /\ req' = [req EXCEPT ![r].pc = "resolved", ![r].engine = "called"]
  /\ showPreview(r)
  /\ UNCHANGED <<language, formData, checkboxes, alerts, downloads, pdfMakeFonts>>

-----------------------------------------------------------------------------
(* Inputs                                                                  *)

\* new Date() formatted dd.mm.yyyy, on two days
Dates == {"04.03.2024", "05.03.2024"}

\* what a user types into a field
Values(name) == IF name = "training_hours" THEN {"8", "0"} ELSE {"Acme Co"}

Filled(fd) == {f \in Fields : fd[f] # ""}

Checked(cb) == {k \in DOMAIN cb : cb[k]}

\* the subsets of S of at most k elements
RECURSIVE SubsetsUpTo(_, _)
SubsetsUpTo(S, k) ==
  IF k = 0 THEN {{}}
  ELSE LET P == SubsetsUpTo(S, k - 1) IN P \cup {p \cup {x} : p \in P, x \in S}

\* the form records with at most MaxFilled fields filled in
Snapshots ==
  UNION {{[f \in Fields |-> IF f \in S THEN m[f] ELSE ""] :
            m \in {n \in [S -> {"Acme Co", "8", "0"}] : \A f \in S : n[f] \in Values(f)}} :
         S \in SubsetsUpTo(Fields, MaxFilled)}

\* the keys of interface Checkboxes of each variant
CheckboxKeys(variant) ==
  IF variant = "full"
  THEN SeqToSet(PreServiceKeys) \cup SeqToSet(PumpPreparationKeys)
  ELSE SingleCheckboxKeys

\* the checklists with at most MaxChecked flags true, and the one with all
Checklists(variant) ==
  {[k \in CheckboxKeys(variant) |-> k \in on] :
     on \in SubsetsUpTo(CheckboxKeys(variant), MaxChecked) \cup {CheckboxKeys(variant)}}

\* the arguments of a call of the composer: every snapshot with the checklist
\* all false and all true, and every checklist with each value of training_hours
ComposeInputs(variant) ==
  (Snapshots \X {[k \in CheckboxKeys(variant) |-> FALSE],
                 [k \in CheckboxKeys(variant) |-> TRUE]})
  \cup ({[InitialFormData EXCEPT !.training_hours = v] : v \in {"", "8", "0"}}
        \X Checklists(variant))

\* blob sizes around the threshold
Sizes == {1, maxImageSize - 1, maxImageSize, maxImageSize + 1, 2 * maxImageSize}

\* decoded sides around the cap of 800
Dims == {400 * k + d : k \in 0..MaxDim, d \in {0, 1}} \ {0}

-----------------------------------------------------------------------------
(* Specifications                                                          *)

\* the component as constructed, with room for n calls of generatePDF
InitOf(n) ==
  /\ language = "en"
  /\ formData = InitialFormData
  /\ checkboxes = InitialCheckboxes
  /\ isPreviewOpen = FALSE
  /\ pdfPreviewUrl = NoUrl
  /\ alerts = <<>>
  /\ objectUrls = [r \in 1..n |-> "none"]
  /\ downloads = {}
  /\ pdfMakeFonts = {}
  /\ req = [r \in 1..n |-> IdleRequest]

Init == InitOf(MaxRequests)

\* The life of generate requests made from the form: every outcome of the
\* fetches, the decoding and the engine.
Next ==
  \/ \E r \in Requests : handleSubmit(r)
  \/ \E r \in Requests, i \in Images, size \in {maxImageSize, maxImageSize + 1} :
       fetchResolve(r, i, size)
  \/ \E r \in Requests, i \in Images : fetchReject(r, i)
  \/ \E r \in Requests, i \in Images : readerLoadEnd(r, i)
  \/ \E r \in Requests, i \in Images, hasContext \in BOOLEAN :
       imgOnload(r, i, 1600, 1200, hasContext)
  \/ \E r \in Requests, i \in Images : imgOnerror(r, i)
  \/ \E r \in Requests, today \in Dates, outcome \in EngineOutcomes :
       compose(r, today, outcome)
  \/ \E r \in Requests : getBlobCallback(r)
  \/ handleClosePreview
  \/ handleDownload

Spec == Init /\ [][Next]_vars

\* the browser runs every callback that is due; the user need not act
Callbacks ==
  \/ \E r \in Requests, i \in Images, size \in {maxImageSize, maxImageSize + 1} :
       fetchResolve(r, i, size)
  \/ \E r \in Requests, i \in Images : fetchReject(r, i)
  \/ \E r \in Requests, i \in Images : readerLoadEnd(r, i)
  \/ \E r \in Requests, i \in Images, hasContext \in BOOLEAN :
       imgOnload(r, i, 1600, 1200, hasContext)
  \/ \E r \in Requests, i \in Images : imgOnerror(r, i)
  \/ \E r \in Requests, today \in Dates, outcome \in EngineOutcomes :
       compose(r, today, outcome)
  \/ \E r \in Requests : getBlobCallback(r)

FairSpec == Init /\ [][Next]_vars /\ WF_vars(Callbacks)

\* The form: typing, ticking and switching language around one generate
\* request whose images are small.
FormFields == {"company", "training_hours"}

FormIds == {"system_flush", "power_isolation", "photos_taken"}

InitForm == InitOf(1)

NextForm ==
  \/ \E name \in FormFields : \E value \in Values(name) \cup {""} :
       /\ Cardinality(Filled([formData EXCEPT ![name] = value])) <= MaxFilled
       /\ handleInputChange(name, value)
  \/ \E id \in FormIds :
       /\ Cardinality(Checked([checkboxes EXCEPT ![id] = ~checkboxes[id]])) <= MaxChecked
       /\ handleCheckboxChange(id)
  \/ \E lang \in Language : changeLanguage(lang)
  \/ \E r \in Requests : handleSubmit(r)
  \/ \E r \in Requests, i \in Images : fetchResolve(r, i, maxImageSize)
  \/ \E r \in Requests, i \in Images : fetchReject(r, i)
  \/ \E r \in Requests, i \in Images : readerLoadEnd(r, i)
  \/ \E r \in Requests, today \in Dates, outcome \in EngineOutcomes :
       compose(r, today, outcome)
  \/ \E r \in Requests : getBlobCallback(r)
  \/ handleClosePreview

SpecForm == InitForm /\ [][NextForm]_vars

\* The composer: one call of generatePDF of either variant on every snapshot,
\* checklist and language, with small images.
NextCompose ==
  \/ /\ req[1].pc = "idle"
     /\ \E variant \in {"full", "single"}, lang \in Language :
          \E in \in ComposeInputs(variant) : generatePDF(1, variant, in[1], in[2], lang)
  \/ \E i \in Images : fetchResolve(1, i, maxImageSize)
  \/ \E i \in Images : readerLoadEnd(1, i)
  \/ \E today \in Dates, outcome \in EngineOutcomes : compose(1, today, outcome)
  \/ getBlobCallback(1)

SpecCompose == InitForm /\ [][NextCompose]_vars

\* loadImage: one call of generatePDF, every blob size and decoded size.
NextImage ==
  \/ \E lang \in Language :
       generatePDF(1, "full", InitialFormData,
                   [k \in CheckboxKeys("full") |-> FALSE], lang)
  \/ \E i \in Images, size \in Sizes : fetchResolve(1, i, size)
  \/ \E i \in Images : fetchReject(1, i)
  \/ \E i \in Images : readerLoadEnd(1, i)
  \/ \E i \in Images, imgWidth \in Dims, imgHeight \in Dims, hasContext \in BOOLEAN :
       imgOnload(1, i, imgWidth, imgHeight, hasContext)
  \/ \E i \in Images : imgOnerror(1, i)

SpecImage == InitForm /\ [][NextImage]_vars

\* Overlapping requests: the submit button stays enabled while a request is
\* in flight, so the form starts a request while another is loading; a caller
\* of the single-flow variant runs beside them.  Images are small.
MaxOverlap == 2

InitOverlap == InitOf(MaxOverlap)

NextOverlap ==
  \/ \E lang \in Language : changeLanguage(lang)
  \/ \E r \in Requests : handleSubmit(r)
  \/ \E r \in Requests :
       generatePDF(r, "single", InitialFormData,
                   [k \in CheckboxKeys("single") |-> FALSE], "th")
  \/ \E r \in Requests, i \in Images : fetchResolve(r, i, maxImageSize)
  \/ \E r \in Requests, i \in Images : readerLoadEnd(r, i)
  \/ \E r \in Requests, today \in Dates : compose(r, today, "callback")
  \/ \E r \in Requests : getBlobCallback(r)
  \/ handleClosePreview

SpecOverlap == InitOverlap /\ [][NextOverlap]_vars

\* The preview: overlapping requests of the form that resolve or fail, the
\* preview closed and its document downloaded in between.  Images are small.
NextPreview ==
  \/ \E r \in Requests : handleSubmit(r)
  \/ \E r \in Requests, i \in Images : fetchResolve(r, i, maxImageSize)
  \/ \E r \in Requests : fetchReject(r, "qr")
  \/ \E r \in Requests, i \in Images : readerLoadEnd(r, i)
  \/ \E r \in Requests, outcome \in {"callback", "throws"} :
       compose(r, "04.03.2024", outcome)
  \/ \E r \in Requests : getBlobCallback(r)
  \/ handleClosePreview
  \/ handleDownload

SpecPreview == InitOverlap /\ [][NextPreview]_vars

\* The form and generatePDF where window is undefined (a render outside a
\* browser): every call returns null.
NextNoWindow ==
  \/ \E name \in FormFields : \E value \in Values(name) \cup {""} :
       /\ Cardinality(Filled([formData EXCEPT ![name] = value])) <= MaxFilled
       /\ handleInputChange(name, value)
  \/ \E id \in FormIds :
       /\ Cardinality(Checked([checkboxes EXCEPT ![id] = ~checkboxes[id]])) <= MaxChecked
       /\ handleCheckboxChange(id)
  \/ \E lang \in Language : changeLanguage(lang)
  \/ \E r \in Requests : handleSubmitNoWindow(r)
  \/ \E r \in Requests, variant \in {"full", "single"}, lang \in Language :
       generatePDFNoWindow(r, variant, InitialFormData,
                           [k \in CheckboxKeys(variant) |-> FALSE], lang)
  \/ \E r \in Requests : skipPreview(r)

SpecNoWindow == InitForm /\ [][NextNoWindow]_vars

-----------------------------------------------------------------------------
(* Reading a produced tree                                                 *)

\* every node of a tree, parents before children, in document order
RECURSIVE Nodes(_)
Nodes(blocks) ==
  IF Len(blocks) = 0 THEN <<>>
  ELSE LET b == Head(blocks)
           below == IF "stack" \in DOMAIN b THEN Nodes(b.stack)
                    ELSE IF "columns" \in DOMAIN b THEN Nodes(b.columns)
                    ELSE <<>>
       IN  <<b>> \o below \o Nodes(Tail(blocks))

IsTable(b) == "table" \in DOMAIN b

\* a checkbox row: two columns, the first a canvas
IsCheckboxRow(b) ==
  /\ "columns" \in DOMAIN b
  /\ Len(b.columns) = 2
  /\ "canvas" \in DOMAIN b.columns[1]

TablesOf(doc) == SelectSeq(Nodes(doc.content), IsTable)

CheckboxRowsOf(doc) == SelectSeq(Nodes(doc.content), IsCheckboxRow)

HasCheckmark(row) ==
  \E k \in 1..Len(row.columns[1].canvas) : row.columns[1].canvas[k].type = "line"

\* a call whose tree has been built
Composed(r) == req[r].doc # NoDoc

\* the checklist keys in the order of the rows of the document
RowKeys(variant) ==
  IF variant = "full" THEN PumpPreparationKeys \o PreServiceKeys ELSE PreServiceKeys

\* the ids of the form controls in the order of the rows of the full document
RowFormIds == PumpPreparationFormIds \o PreServiceKeys

-----------------------------------------------------------------------------
\* C1: in the full configuration, after any toggles in the form and a generate
\* request, each of the 15 checkbox rows of the produced tree has the
\* checkmark iff the form's flag of that item was true.
C1_RowsFollowFormFlags ==
  \A r \in Requests :
    (req[r].caller = "form" /\ Composed(r)) =>
      LET rows == CheckboxRowsOf(req[r].doc)
      IN  /\ Len(rows) = 15
          /\ \A k \in 1..15 :
               HasCheckmark(rows[k]) <=> req[r].checkboxes[RowFormIds[k]]

\* the rows whose form id is also the key the composer reads do follow the form
C1_SharedKeysFollowFormFlags ==
  \A r \in Requests :
    (req[r].caller = "form" /\ Composed(r)) =>
      LET rows == CheckboxRowsOf(req[r].doc)
      IN  /\ Len(rows) = 15
          /\ \A k \in 1..15 :
               RowFormIds[k] = RowKeys("full")[k] =>
                 (HasCheckmark(rows[k]) <=> req[r].checkboxes[RowFormIds[k]])

-----------------------------------------------------------------------------
\* C2: each of the 18 value cells of the key/value tables and the
\* service-reason paragraph shows the field's string when it is non-empty and
\* "-" when it is empty, and a call that got its images has a tree with the
\* three tables whatever the fields are.
ShownAs(value) == IF value = "" THEN "-" ELSE value

\* the block after the service-reason label
ServiceReasonParagraph(doc, lang) ==
  LET nodes == Nodes(doc.content)
      at == CHOOSE j \in 1..Len(nodes) :
              /\ "text" \in DOMAIN nodes[j]
              /\ nodes[j].text = translations.serviceReason[lang]
  IN  nodes[at + 1]

C2_ValueCellsShowFieldOrDash ==
  \A r \in Requests :
    (req[r].pc \in {"rendering", "resolved"} \/ Composed(r)) =>
      LET doc == req[r].doc
          fd == req[r].formData
          tables == TablesOf(doc)
      IN  /\ Len(tables) = 3
          /\ \A t \in 1..3 :
               /\ Len(tables[t].table.body) = 6
               /\ \A k \in 1..6 :
                    tables[t].table.body[k][2].text = ShownAs(fd[FieldNames[6 * (t - 1) + k]])
          /\ ServiceReasonParagraph(doc, req[r].language).text = ShownAs(fd.service_reason)

\* a call with every field empty came back with its blob, every cell a dash
C2_Witness ==
  \E r \in Requests :
    /\ req[r].pc = "resolved"
    /\ req[r].formData = InitialFormData
    /\ \A t \in 1..3, k \in 1..6 : TablesOf(req[r].doc)[t].table.body[k][2].text = "-"

\* a call with a field filled in came back with its blob
C2_WitnessFilled ==
  \E r \in Requests :
    /\ req[r].pc = "resolved"
    /\ req[r].formData.company = "Acme Co"
    /\ TablesOf(req[r].doc)[1].table.body[1][2].text = "Acme Co"

-----------------------------------------------------------------------------
\* C3: for each language, every bilingual text site of the produced tree
\* (header lines, section headers, table labels, checklist labels, notes
\* subheading and notes list) carries the string of that language and never
\* the string of the other language.

\* the strings at the bilingual sites of a tree: the styled text blocks, the
\* labels of the checkbox rows, the label cells of the tables, the list items
\* and the metadata texts (the value cells and the service-reason paragraph
\* carry form data)
BilingualSites(doc) ==
  LET nodes == Nodes(doc.content)
      tables == TablesOf(doc)
  IN  {nodes[j].text : j \in {i \in 1..Len(nodes) :
                                 /\ "text" \in DOMAIN nodes[i]
                                 /\ ("style" \in DOMAIN nodes[i] \/ "width" \in DOMAIN nodes[i])}}
      \cup UNION {{tables[t].table.body[k][1].text : k \in 1..Len(tables[t].table.body)} :
                  t \in 1..Len(tables)}
      \cup UNION {{nodes[j].ul[k] : k \in 1..Len(nodes[j].ul)} :
                  j \in {i \in 1..Len(nodes) : "ul" \in DOMAIN nodes[i]}}
      \cup (IF "info" \in DOMAIN doc THEN {doc.info.title, doc.info.subject} ELSE {})

\* the strings of one language in the tables of a variant
LanguageStrings(variant, lang, fd, today) ==
  LET titles == sectionTitles(variant)
      hdr == docHeader(variant, today)
      notes == importantNotes(variant)
      keys == SeqToSet(RowKeys(variant))
  IN  {titles[k][lang] : k \in DOMAIN titles}
      \cup {hdr[k][lang] : k \in DOMAIN hdr}
      \cup {translations[k][lang] : k \in DOMAIN translations}
      \cup {notes[k][lang] : k \in 1..Len(notes)}
      \cup {checklistLabel(k, lang, fd) : k \in keys}
      \cup {documentTitle[lang]}

C3_OneLanguagePerDocument ==
  \A r \in Requests :
    Composed(r) =>
      LET sites == BilingualSites(req[r].doc)
          lang == req[r].language
      IN  /\ sites \subseteq
               LanguageStrings(req[r].variant, lang, req[r].formData, req[r].today)
          /\ sites \cap
               LanguageStrings(req[r].variant, Other(lang), req[r].formData, req[r].today) = {}

\* a Thai document of the full variant and its header, labels and notes
C3_Witness ==
  \E r \in Requests :
    /\ Composed(r)
    /\ req[r].language = "th"
    /\ req[r].variant = "full"
    /\ Cardinality(BilingualSites(req[r].doc)) > 40

-----------------------------------------------------------------------------
\* C4: createCheckboxItem(checked, text): the canvas starts with one
\* rectangle at x=0, y=0, w=10, h=10; unchecked it has only that rectangle;
\* checked it has also exactly the two segments (2,5)-(4,8) and (4,8)-(8,2),
\* in that order; the label column is text.  The same for every item.
IsSquare(e) == e.type = "rect" /\ e.x = 0 /\ e.y = 0 /\ e.w = 10 /\ e.h = 10

IsSegment(e, x1, y1, x2, y2) ==
  e.type = "line" /\ e.x1 = x1 /\ e.y1 = y1 /\ e.x2 = x2 /\ e.y2 = y2

C4_CheckboxGlyph ==
  \A r \in Requests :
    Composed(r) =>
      LET rows == CheckboxRowsOf(req[r].doc)
          keys == RowKeys(req[r].variant)
      IN  /\ Len(rows) = Len(keys)
          /\ \A k \in 1..Len(rows) :
               LET canvas == rows[k].columns[1].canvas
                   checked == Flag(req[r].checkboxes, keys[k])
               IN  /\ IsSquare(canvas[1])
                   /\ ~checked => Len(canvas) = 1
                   /\ checked => /\ Len(canvas) = 3
                                 /\ IsSegment(canvas[2], 2, 5, 4, 8)
                                 /\ IsSegment(canvas[3], 4, 8, 8, 2)
                   /\ rows[k].columns[2].text =
                        checklistLabel(keys[k], req[r].language, req[r].formData)

\* a tree with a checked row and an unchecked row
C4_Witness ==
  \E r \in Requests :
    /\ Composed(r)
    /\ \E k \in 1..Len(CheckboxRowsOf(req[r].doc)) : HasCheckmark(CheckboxRowsOf(req[r].doc)[k])
    /\ \E k \in 1..Len(CheckboxRowsOf(req[r].doc)) : ~HasCheckmark(CheckboxRowsOf(req[r].doc)[k])

-----------------------------------------------------------------------------
\* C5: loadImage on a blob of at most 512000 bytes (the boundary included)
\* returns the data URL of the original bytes, with no decode, no resize and
\* no recompression; the resize path is taken only above 512000 bytes.
Loads == Requests \X Images

LoadOf(ri) == req[ri[1]].loads[ri[2]]

Fetched(load) == load.pc \notin {"none", "fetching", "rejected"}

OnResizePath(load) ==
  load.pc \in {"decoding", "undecodable"} \/ load.result.kind \in {"jpeg", "empty"}

C5_SmallImageUnchanged ==
  \A ri \in Loads :
    LET load == LoadOf(ri)
    IN  Fetched(load) =>
          /\ load.blob.size <= 512000 =>
               /\ load.pc \in {"reading", "resolved"}
               /\ load.imgWidth = 0 /\ load.imgHeight = 0
               /\ load.pc = "resolved" =>
                    load.result = [kind |-> "dataurl", bytes |-> load.blob]
          /\ OnResizePath(load) => load.blob.size > 512000

\* a blob of exactly 512000 bytes came back as the data URL of its bytes
C5_Witness ==
  \E ri \in Loads :
    /\ LoadOf(ri).pc = "resolved"
    /\ LoadOf(ri).blob.size = 512000
    /\ LoadOf(ri).result.kind = "dataurl"

-----------------------------------------------------------------------------
\* C6: on the resize path with decoded size W x H and W > 800 the dimensions
\* become (800, H*800/W); if that height is still above 800 a second cap on
\* the scaled dimensions gives height 800 and a width below 800: the result
\* of scaling by 800/W and then by 800/H', H' the height after the first cap.
ScaleBy(dim, factor) ==
  [width |-> RatMul(dim.width, factor), height |-> RatMul(dim.height, factor)]

C6_TwoCapsInSequence ==
  \A ri \in Loads :
    LET load == LoadOf(ri)
    IN  (load.result.kind = "jpeg" /\ load.imgWidth > 800) =>
          LET drawn == [width |-> load.result.drawWidth, height |-> load.result.drawHeight]
              first == ScaleBy([width |-> Num(load.imgWidth), height |-> Num(load.imgHeight)],
                               Rat(800, load.imgWidth))
          IN  /\ first.width = Num(800)
              /\ first.height = Rat(load.imgHeight * 800, load.imgWidth)
              /\ IF RatGT(first.height, 800)
                 THEN /\ drawn = ScaleBy(first, RatDiv(Num(800), first.height))
                      /\ drawn.height = Num(800)
                      /\ drawn.width.n < 800 * drawn.width.d
                 ELSE drawn = first

\* an image wider than 800 whose height is above 800 after the first cap
C6_Witness ==
  \E ri \in Loads :
    /\ LoadOf(ri).result.kind = "jpeg"
    /\ LoadOf(ri).imgWidth > 800
    /\ LoadOf(ri).imgHeight > LoadOf(ri).imgWidth
    /\ LoadOf(ri).result.drawHeight = Num(800)

-----------------------------------------------------------------------------
\* C7: on the resize path, if decoding the image fails or no 2D context is
\* available, loadImage resolves with the empty payload ''.
DecodeFailed(load) == load.pc = "undecodable"

NoContext(load) == load.pc = "resolved" /\ load.blob.size > 512000 /\ ~load.hasContext

C7_FailuresResolveEmpty ==
  \A ri \in Loads :
    (DecodeFailed(LoadOf(ri)) \/ NoContext(LoadOf(ri))) => LoadOf(ri).result = EmptyPayload

-----------------------------------------------------------------------------
\* C8: every generate request, once started, eventually resolves with a blob
\* or fails with an error, the browser running every callback that is due.
C8_RequestsSettle ==
  \A r \in 1..MaxRequests :
    (req[r].pc = "loading") ~> (req[r].pc \in {"resolved", "failed"})

-----------------------------------------------------------------------------
\* C9: within one generate request both image loads are started before
\* either has completed, and the tree is built and handed to the engine only
\* after both have completed; while only one has completed the composer waits.
Started(load) == load.pc # "none"

C9_JoinOnBothLoads ==
  \A r \in Requests :
    /\ (\E i \in Images : Started(req[r].loads[i])) =>
         (\A i \in Images : Started(req[r].loads[i]))
    /\ (Composed(r) \/ req[r].pc \in {"rendering", "resolved"}) =>
         \A i \in Images : req[r].loads[i].pc = "resolved"
    /\ (\E i \in Images : req[r].loads[i].pc # "resolved") =>
         (~Composed(r) /\ req[r].engine = "none")

\* a request waits with only its QR code loaded, the logo still being decoded
C9_Witness ==
  \E r \in Requests :
    /\ req[r].pc = "loading" /\ ~Composed(r)
    /\ req[r].loads["qr"].pc = "resolved" /\ req[r].loads["logo"].pc = "decoding"

\* the other order: only the logo is loaded
C9_WitnessLogoFirst ==
  \E r \in Requests :
    /\ req[r].pc = "loading" /\ ~Composed(r)
    /\ req[r].loads["logo"].pc = "resolved" /\ req[r].loads["qr"].pc = "fetching"

-----------------------------------------------------------------------------
\* C10: for every generate request that fails (an image fetch or the
\* rendering engine), handleSubmit shows exactly one failure notice and leaves
\* the preview as it was: no blob URL is created, pdfPreviewUrl is not set and
\* the preview is not opened.
NoticesOf(r) == Cardinality({k \in 1..Len(alerts) : alerts[k].request = r})

C10_FailedRequestState ==
  \A r \in Requests :
    /\ req[r].pc = "failed" =>
         /\ NoticesOf(r) = 1
         /\ objectUrls[r] = "none"
         /\ pdfPreviewUrl # r
    /\ req[r].pc # "failed" => NoticesOf(r) = 0

C10_FailingStep ==
  \A r \in Requests :
    (req[r].pc # "failed" /\ req'[r].pc = "failed") =>
      /\ Len(alerts') = Len(alerts) + 1
      /\ UNCHANGED <<isPreviewOpen, pdfPreviewUrl, objectUrls>>

C10_OneNoticeNoPreview == [](C10_FailedRequestState) /\ [][C10_FailingStep]_vars

\* a request both of whose fetches failed, after its one notice
C10_Witness ==
  \E r \in Requests :
    /\ req[r].pc = "failed"
    /\ \A i \in Images : req[r].loads[i].pc = "rejected"
    /\ NoticesOf(r) = 1

\* a request whose engine threw, after its one notice
C10_WitnessEngine ==
  \E r \in Requests :
    /\ req[r].pc = "failed" /\ req[r].engine = "threw"
    /\ NoticesOf(r) = 1 /\ ~isPreviewOpen /\ pdfPreviewUrl = NoUrl

-----------------------------------------------------------------------------
\* C11: every blob URL created by handleSubmit is revoked on every exit from
\* the preview: whenever the preview is closed, no created URL is unrevoked,
\* also when a second request replaced the preview URL of a first.
C11_NoUrlLeftWhenClosed ==
  ~isPreviewOpen => \A r \in Requests : objectUrls[r] # "live"

\* the part that holds: closing revokes the URL the preview shows
C11_CloseRevokesShownUrl ==
  [][(isPreviewOpen /\ ~isPreviewOpen' /\ pdfPreviewUrl # NoUrl)
       => objectUrls'[pdfPreviewUrl] = "revoked"]_vars

-----------------------------------------------------------------------------
\* C12: after the post-pass every table block of the tree, the tables inside
\* section stacks included, has the custom rule set
\* tableLayout.lightHorizontalLines as its layout, in both variants.
C12_EveryTableHasCustomLayout ==
  \A r \in Requests :
    Composed(r) =>
      LET tables == TablesOf(req[r].doc)
      IN  \A k \in 1..Len(tables) :
            tables[k].layout = tableLayout.lightHorizontalLines

\* the part that holds: the tables that are blocks of content itself, which
\* are all the tables of the single-flow variant
C12_TopLevelTablesHaveCustomLayout ==
  \A r \in Requests :
    Composed(r) =>
      LET content == req[r].doc.content
          tables == TablesOf(req[r].doc)
      IN  /\ \A k \in 1..Len(content) :
                IsTable(content[k]) =>
                  content[k].layout = tableLayout.lightHorizontalLines
          /\ req[r].variant = "single" =>
                /\ Len(tables) = 3
                /\ \A k \in 1..Len(tables) :
                      tables[k].layout = tableLayout.lightHorizontalLines

-----------------------------------------------------------------------------
\* the family the document's language needs: Latin script for en, Thai for th
FontOf(lang) == IF lang = "en" THEN "Roboto" ELSE "THSarabunNew"

\* no block of the tree names a font of its own
NoFontOverride(doc) ==
  LET nodes == Nodes(doc.content)
  IN  \A k \in 1..Len(nodes) : "font" \notin DOMAIN nodes[k]

\* C13: the default font of every document is Roboto when the language is en
\* and THSarabunNew when it is th, in both variants, and no block of the tree
\* overrides the font family.
C13_DefaultFontFollowsLanguage ==
  \A r \in Requests :
    Composed(r) =>
      /\ req[r].doc.defaultStyle.font = FontOf(req[r].language)
      /\ NoFontOverride(req[r].doc)

\* the part that holds: the single-flow variant selects by language, the full
\* variant always selects Roboto, and neither overrides the font in a block
C13_FontPerVariant ==
  \A r \in Requests :
    Composed(r) =>
      /\ req[r].doc.defaultStyle.font =
           IF req[r].variant = "single" THEN FontOf(req[r].language) ELSE "Roboto"
      /\ NoFontOverride(req[r].doc)

-----------------------------------------------------------------------------
\* t occurs in s
Contains(s, t) ==
  \E i \in 1..(Len(s) - Len(t) + 1) : SubSeq(s, i, i + Len(t) - 1) = t

\* the label of the safety-training row of a document
SafetyTrainingLabel(r) ==
  LET rows == CheckboxRowsOf(req[r].doc)
      keys == RowKeys(req[r].variant)
      at == CHOOSE k \in 1..Len(keys) : keys[k] = "safety_training"
  IN  rows[at].columns[2].text

\* C14: the label of the safety-training item contains "(<training_hours>
\* hours)", with the unit word of the language, when training_hours is a
\* non-empty string, and contains no parenthesis at all when it is empty.
C14_TrainingHoursParenthetical ==
  \A r \in Requests :
    Composed(r) =>
      LET label == SafetyTrainingLabel(r)
          hours == req[r].formData.training_hours
      IN  IF hours # ""
          THEN Contains(label, "(" \o hours \o " " \o unitWord(req[r].language) \o ")")
          ELSE ~Contains(label, "(") /\ ~Contains(label, ")")

\* a Thai document with training hours given, and one with the string "0"
C14_Witness ==
  \E r \in Requests :
    /\ Composed(r) /\ req[r].language = "th"
    /\ req[r].formData.training_hours = "8"
    /\ Contains(SafetyTrainingLabel(r), "(8 [th] hours)")

C14_WitnessZero ==
  \E r \in Requests :
    /\ Composed(r) /\ req[r].formData.training_hours = "0"
    /\ Contains(SafetyTrainingLabel(r), "(0 hours)")

C14_WitnessEmpty ==
  \E r \in Requests :
    /\ Composed(r) /\ req[r].formData.training_hours = ""
    /\ SafetyTrainingLabel(r) = "Safety Training required? "

-----------------------------------------------------------------------------
\* the heading a top-level block opens with: the block itself when it is a
\* heading, the first block of its stack when it is a section
HeadingOf(b) ==
  IF "stack" \in DOMAIN b /\ Len(b.stack) > 0 THEN b.stack[1] ELSE b

IsHeading(b) ==
  /\ "text" \in DOMAIN b /\ "style" \in DOMAIN b
  /\ b.style \in {"sectionHeader", "subHeader"}

\* the headings of the top-level blocks, in the order of the blocks
TopHeadings(doc) ==
  LET heads == [k \in 1..Len(doc.content) |-> HeadingOf(doc.content[k])]
      kept == SelectSeq(heads, IsHeading)
  IN  [k \in 1..Len(kept) |-> kept[k].text]

\* the reading order of the headings of each variant
ReadingOrder(variant, lang) ==
  LET t == sectionTitles(variant)
  IN  IF variant = "full"
      THEN <<t.customerDetails[lang], t.pumpInfo[lang], t.operatingConditions[lang],
             t.pumpPreparation[lang], t.preparationChecklist[lang],
             t.importantNotes[lang]>>
      ELSE <<t.customerDetails[lang], t.pumpInfo[lang], t.operatingConditions[lang],
             t.preparationChecklist[lang], t.preServiceRequirements[lang],
             t.importantNotes[lang]>>

\* where the block with this text is among the nodes of the tree
PositionOf(nodes, text) ==
  CHOOSE j \in 1..Len(nodes) : "text" \in DOMAIN nodes[j] /\ nodes[j].text = text

\* the nodes from position a to position b hold exactly n checkbox rows
RowsBetween(nodes, a, b) ==
  Cardinality({j \in a..b : IsCheckboxRow(nodes[j])})

\* C15: the top-level blocks of every tree are in the reading order header,
\* customer details, pump information, operating conditions with the
\* service-reason narrative, preparation checklist, pre-service checklist,
\* notes; in each key/value section the header is immediately followed by its
\* table.
C15_ReadingOrder ==
  \A r \in Requests :
    Composed(r) =>
      LET doc == req[r].doc
          lang == req[r].language
          variant == req[r].variant
          nodes == Nodes(doc.content)
          order == ReadingOrder(variant, lang)
          at == [k \in 1..6 |-> PositionOf(nodes, order[k])]
          reason == PositionOf(nodes, translations.serviceReason[lang])
          firstLabel == <<translations.company[lang], translations.pumpModel[lang],
                          translations.temperature[lang]>>
      IN  /\ "columns" \in DOMAIN doc.content[1]
          /\ \E j \in 1..Len(nodes) :
                "image" \in DOMAIN nodes[j] /\ j < at[1]
          /\ TopHeadings(doc) = order
          /\ \A k \in 1..5 : at[k] < at[k + 1]
          /\ \A k \in 1..3 :
                /\ IsTable(nodes[at[k] + 1])
                /\ nodes[at[k] + 1].table.body[1][1].text = firstLabel[k]
          /\ reason = at[3] + 2 /\ reason + 1 < at[4]
          /\ IF variant = "full"
             THEN /\ RowsBetween(nodes, at[4], at[5]) = 9
                  /\ RowsBetween(nodes, at[5], at[6]) = 6
             ELSE RowsBetween(nodes, at[5], at[6]) = 6
          /\ RowsBetween(nodes, 1, at[4]) = 0
          /\ at[6] + 1 = Len(nodes) /\ "ul" \in DOMAIN nodes[Len(nodes)]

\* a Thai document of the full variant, with its seven top-level blocks
C15_Witness ==
  \E r \in Requests :
    /\ Composed(r) /\ req[r].variant = "full" /\ req[r].language = "th"
    /\ Len(req[r].doc.content) = 7
    /\ TopHeadings(req[r].doc)[4] = sectionTitles("full").pumpPreparation["th"]

\* a document of the single-flow variant, whose blocks are all top-level
C15_WitnessSingle ==
  \E r \in Requests :
    /\ Composed(r) /\ req[r].variant = "single"
    /\ Len(TopHeadings(req[r].doc)) = 6
    /\ Len(req[r].doc.content) > 7

-----------------------------------------------------------------------------
\* C16: the tree has exactly N checkbox rows, N the size of the variant's
\* item set (6 or 15), one row per identifier in the fixed order of the
\* source; with every flag false every one of the N rows is unchecked.
C16_OneRowPerItem ==
  \A r \in Requests :
    Composed(r) =>
      LET rows == CheckboxRowsOf(req[r].doc)
          keys == RowKeys(req[r].variant)
      IN  /\ Len(keys) = IF req[r].variant = "full" THEN 15 ELSE 6
          /\ Len(rows) = Len(keys)
          /\ \A k \in 1..Len(keys) :
                rows[k].columns[2].text =
                  checklistLabel(keys[k], req[r].language, req[r].formData)
          /\ \A j, k \in 1..Len(rows) :
                j # k => rows[j].columns[2].text # rows[k].columns[2].text
          /\ Checked(req[r].checkboxes) = {} =>
                \A k \in 1..Len(rows) : ~HasCheckmark(rows[k])

\* a full-variant tree of an all-false checklist: 15 rows, none checked
C16_Witness ==
  \E r \in Requests :
    /\ Composed(r) /\ req[r].variant = "full"
    /\ Checked(req[r].checkboxes) = {}
    /\ Len(CheckboxRowsOf(req[r].doc)) = 15

\* a single-flow tree of an all-false checklist: 6 rows
C16_WitnessSingle ==
  \E r \in Requests :
    /\ Composed(r) /\ req[r].variant = "single"
    /\ Checked(req[r].checkboxes) = {}
    /\ Len(CheckboxRowsOf(req[r].doc)) = 6

-----------------------------------------------------------------------------
\* a block with no blocks under it
IsLeaf(b) == "stack" \notin DOMAIN b /\ "columns" \notin DOMAIN b

\* the header's date line of a call of the variant that reads the clock
IsClockDate(r, b) ==
  /\ req[r].variant = "full"
  /\ b = TextBlock(docHeader("full", req[r].today).date[req[r].language], "headerDoc")

\* two calls with the same arguments and the same image payloads
SameInputs(r, q) ==
  /\ req[r].variant = req[q].variant
  /\ req[r].formData = req[q].formData
  /\ req[r].checkboxes = req[q].checkboxes
  /\ req[r].language = req[q].language
  /\ \A i \in Images : req[r].loads[i].result = req[q].loads[i].result

\* C17: two calls with identical snapshot, checklist, language and image
\* payloads build trees of the same shape whose blocks are equal one by one,
\* except the header's date line where it comes from the clock; on the same
\* day, and in the variant with the fixed date, the documents are equal.
C17_DeterministicExceptDate ==
  \A r, q \in Requests :
    (r # q /\ Composed(r) /\ Composed(q) /\ SameInputs(r, q)) =>
      LET nr == Nodes(req[r].doc.content)
          nq == Nodes(req[q].doc.content)
      IN  /\ Len(nr) = Len(nq)
          /\ [req[r].doc EXCEPT !.content = <<>>] = [req[q].doc EXCEPT !.content = <<>>]
          /\ \A j \in 1..Len(nr) :
                /\ DOMAIN nr[j] = DOMAIN nq[j]
                /\ IsLeaf(nr[j]) =>
                      \/ nr[j] = nq[j]
                      \/ IsClockDate(r, nr[j]) /\ IsClockDate(q, nq[j])
          /\ (req[r].variant = "single" \/ req[r].today = req[q].today) =>
                req[r].doc = req[q].doc

\* two calls of the form with the same inputs on different days: the trees
\* differ, in the date line only
C17_Witness ==
  \E r, q \in Requests :
    /\ r # q /\ Composed(r) /\ Composed(q) /\ SameInputs(r, q)
    /\ req[r].variant = "full" /\ req[r].today # req[q].today
    /\ req[r].doc # req[q].doc

\* two calls of the single-flow variant with the same inputs on different days
C17_WitnessFixedDate ==
  \E r, q \in Requests :
    /\ r # q /\ Composed(r) /\ Composed(q) /\ SameInputs(r, q)
    /\ req[r].variant = "single" /\ req[r].today # req[q].today
    /\ req[r].doc = req[q].doc

-----------------------------------------------------------------------------
\* the metadata of a document definition of the language
HasMetadata(doc, lang) ==
  /\ "info" \in DOMAIN doc
  /\ DOMAIN doc.info = {"title", "author", "subject", "keywords"}
  /\ doc.info.author = "Water Field Asia Co., Ltd."
  /\ doc.info.keywords = "pump, service, checklist"
  /\ doc.info.title = documentTitle[lang]
  /\ doc.info.subject # ""

\* C18: every document definition handed to the rendering engine carries the
\* metadata title, author, subject and keywords, author and keywords fixed and
\* the title in the document's language, in both variants.
C18_MetadataInEveryDocument ==
  \A r \in Requests :
    Composed(r) => HasMetadata(req[r].doc, req[r].language)

\* the part that holds: the single-flow variant sets the metadata, the full
\* variant sets none
C18_MetadataPerVariant ==
  \A r \in Requests :
    Composed(r) =>
      IF req[r].variant = "single"
      THEN HasMetadata(req[r].doc, req[r].language)
      ELSE "info" \notin DOMAIN req[r].doc

-----------------------------------------------------------------------------
\* the families a variant registers in pdfMake.fonts
RegisteredBy(variant) ==
  IF variant = "full" THEN {"Roboto"} ELSE {"Roboto", "THSarabunNew"}

\* the arguments and local values of a call
LocalsOf(rq) ==
  <<rq.caller, rq.variant, rq.formData, rq.checkboxes, rq.language>>

\* the document the call builds when it runs alone: a function of its own
\* arguments, its own payloads and the day it composes on; and the fonts the
\* engine reads hold what the call's variant registers and its default font
C19_OwnDocument ==
  \A r \in Requests :
    Composed(r) =>
      /\ req[r].doc =
           docDefinition(req[r].variant, req[r].formData, req[r].checkboxes,
                         req[r].language, req[r].loads["logo"].result,
                         req[r].loads["qr"].result, req[r].today)
      /\ RegisteredBy(req[r].variant) \subseteq req[r].fonts
      /\ req[r].doc.defaultStyle.font \in req[r].fonts

\* a step changes the record of one call at most; a call started by the form
\* takes the form's state of that moment; the arguments of a started call and
\* the document of a composed call never change; the step that resolves a
\* call of the form creates that call's own blob URL
C19_OwnStep ==
  /\ \A r, q \in Requests :
        (r # q /\ req'[r] # req[r]) => req'[q] = req[q]
  /\ \A r \in Requests :
        /\ (req[r].pc = "idle" /\ req'[r].pc # "idle" /\ req'[r].caller = "form") =>
             /\ req'[r].formData = formData
             /\ req'[r].checkboxes = checkboxes
             /\ req'[r].language = language
        /\ req[r].pc # "idle" => LocalsOf(req'[r]) = LocalsOf(req[r])
        /\ Composed(r) => req'[r].doc = req[r].doc /\ req'[r].fonts = req[r].fonts
        /\ (req[r].pc # "resolved" /\ req'[r].pc = "resolved"
              /\ req[r].caller = "form") =>
             /\ objectUrls[r] = "none" /\ objectUrls'[r] = "live"
             /\ \A q \in Requests : q # r => objectUrls'[q] = objectUrls[q]

C19_WitnessSharedFonts ==
  \E r, q \in Requests :
    /\ Composed(r) /\ req[r].variant = "full"
    /\ Composed(q) /\ req[q].variant = "single"
    /\ req[r].fonts = {"Roboto", "THSarabunNew"}

-----------------------------------------------------------------------------
\* C20: when the fetch of the logo or of the QR code fails, the generate call
\* fails as a whole: it is rejected, no tree is built or handed to the engine
\* and no blob is produced, whether or not the other load succeeded.
C20_FetchFailureFailsCall ==
  \A r \in Requests :
    (\E i \in Images : req[r].loads[i].pc = "rejected") =>
      /\ req[r].pc = "failed"
      /\ ~Composed(r)
      /\ req[r].engine = "none"
      /\ objectUrls[r] = "none"
      /\ pdfPreviewUrl # r

\* the QR fetch failed after the logo had been loaded
C20_Witness ==
  \E r \in Requests :
    /\ req[r].loads["qr"].pc = "rejected"
    /\ req[r].loads["logo"].pc = "resolved"
    /\ req[r].pc = "failed"

\* the logo fetch failed while the QR code was still being decoded
C20_WitnessOtherPending ==
  \E r \in Requests :
    /\ req[r].loads["logo"].pc = "rejected"
    /\ req[r].loads["qr"].pc = "decoding"
    /\ req[r].pc = "failed"

-----------------------------------------------------------------------------
\* the image slots of a tree: the blocks with an image key
ImageSlots(doc) ==
  LET HasImage(b) == "image" \in DOMAIN b
  IN  SelectSeq(Nodes(doc.content), HasImage)

\* a call one of whose loads gave the empty payload
HasEmptyPayload(r) ==
  \E i \in Images :
    req[r].loads[i].pc = "resolved" /\ req[r].loads[i].result = EmptyPayload

\* C21: when an image payload is empty the composer tolerates it: the tree it
\* hands to the engine has no image slot holding the empty payload (the slot
\* is omitted or holds a blank), so that generation is not aborted by it.
C21_EmptyImageSlotOmitted ==
  \A r \in Requests :
    (Composed(r) /\ HasEmptyPayload(r)) =>
      LET slots == ImageSlots(req[r].doc)
      IN  \A k \in 1..Len(slots) : slots[k].image # EmptyPayload

\* what the composer does: both image slots are always in the tree, holding
\* whatever loadImage gave
C21_SlotsHoldPayloadsAsGiven ==
  \A r \in Requests :
    Composed(r) =>
      LET slots == ImageSlots(req[r].doc)
      IN  /\ Len(slots) = 2
          /\ slots[1].image = req[r].loads["logo"].result
          /\ slots[2].image = req[r].loads["qr"].result

-----------------------------------------------------------------------------
\* C22: the document reflects the snapshot of the moment of the request: also
\* when the user edits a field, toggles a checkbox or switches language while
\* the request is in flight, the tree has the field values, the flags and the
\* language the form had when the request started.
C22_TreeShowsSnapshotAtStart ==
  \A r \in Requests :
    (req[r].caller = "form" /\ Composed(r)) =>
      LET doc == req[r].doc
          tables == TablesOf(doc)
          rows == CheckboxRowsOf(doc)
      IN  /\ \A t \in 1..3, k \in 1..6 :
                tables[t].table.body[k][2].text =
                  ShownAs(req[r].formData[FieldNames[6 * (t - 1) + k]])
          /\ TopHeadings(doc) = ReadingOrder("full", req[r].language)
          /\ \A k \in 1..15 :
                HasCheckmark(rows[k]) <=> req[r].checkboxes[RowFormIds[k]]

\* the part that holds: a request takes the form's state of the moment of the
\* submit, keeps it whatever the form does afterwards, and its tree is built
\* from it alone
C22_SnapshotIsolated ==
  /\ [](\A r \in Requests :
          Composed(r) =>
            req[r].doc =
              docDefinition(req[r].variant, req[r].formData, req[r].checkboxes,
                            req[r].language, req[r].loads["logo"].result,
                            req[r].loads["qr"].result, req[r].today))
  /\ [][\A r \in Requests :
          /\ (req[r].pc = "idle" /\ req'[r].pc # "idle") =>
               /\ req'[r].formData = formData
               /\ req'[r].checkboxes = checkboxes
               /\ req'[r].language = language
          /\ req[r].pc # "idle" => LocalsOf(req'[r]) = LocalsOf(req[r])
          /\ Composed(r) => req'[r].doc = req[r].doc]_vars

\* a tree built after the form was edited in flight: field, flag and language
\* of the form all differ from those of the request
C22_EditedInFlight ==
  \E r \in Requests :
    /\ Composed(r)
    /\ req[r].formData.company = "Acme Co" /\ formData.company = ""
    /\ req[r].checkboxes.system_flush /\ ~checkboxes.system_flush
    /\ req[r].language = "en" /\ language = "th"
    /\ isPreviewOpen

-----------------------------------------------------------------------------
\* a table node of n body rows
TableOfRows(n) == TableBlock([k \in 1..n |-> keyValueRow("label", "value")])

\* the horizontal rules of a table: none above the first row, none below the
\* last, 0.5 between rows
RulesBetweenRowsOnly(node) ==
  LET rows == Len(node.table.body)
  IN  \A i \in 0..rows :
        hLineWidth(i, node) = IF 0 < i /\ i < rows THEN Rat(1, 2) ELSE Num(0)

\* C23: the custom rule set draws a horizontal rule of width 0.5 between rows
\* only: hLineWidth(i) is 0 for i = 0 and for i = the number of body rows and
\* 0.5 for every i in between; vLineWidth is 0 at every column boundary.
C23_RulesBetweenRowsOnly ==
  /\ tableLayout.lightHorizontalLines.vLineWidth = 0
  /\ \A n \in 1..MaxRows : RulesBetweenRowsOnly(TableOfRows(n))
  /\ \A r \in Requests :
        Composed(r) =>
          LET tables == TablesOf(req[r].doc)
          IN  \A t \in 1..Len(tables) : RulesBetweenRowsOnly(tables[t])

\* a tree whose tables carry the rule set: six rows, a rule under the first
\* row, none above it and none under the sixth
C23_Witness ==
  \E r \in Requests :
    /\ Composed(r)
    /\ LET table == TablesOf(req[r].doc)[1]
       IN  /\ table.layout = tableLayout.lightHorizontalLines
           /\ Len(table.table.body) = 6
           /\ hLineWidth(0, table) = Num(0)
           /\ hLineWidth(1, table) = Rat(1, 2)
           /\ hLineWidth(6, table) = Num(0)

-----------------------------------------------------------------------------
\* C24: the training-hours value is interpolated into the safety-training
\* label only when it is present and nonzero: for training_hours equal to ""
\* or to "0" the label contains no parenthetical.
C24_NoParentheticalForEmptyOrZero ==
  \A r \in Requests :
    (Composed(r) /\ req[r].formData.training_hours \in {"", "0"}) =>
      LET label == SafetyTrainingLabel(r)
      IN  ~Contains(label, "(") /\ ~Contains(label, ")")

\* what the code does: the test is the truthiness of a string, so only the
\* empty string is left out; "0" is interpolated like any other text
C24_NoParentheticalForEmptyOnly ==
  \A r \in Requests :
    Composed(r) =>
      (Contains(SafetyTrainingLabel(r), "(") <=> req[r].formData.training_hours # "")

-----------------------------------------------------------------------------
\* the notes block of a tree: its one bulleted list
NotesOf(doc) ==
  LET nodes == Nodes(doc.content)
      at == CHOOSE k \in 1..Len(nodes) : "ul" \in DOMAIN nodes[k]
  IN  nodes[at].ul

NotesCount(variant) == IF variant = "full" THEN 7 ELSE 6

\* C25: the notes block is a fixed bulleted list independent of form data and
\* checklist flags, of 6 items in the pre-service-only variant and 7 items in
\* the full variant, in both languages.
C25_NotesSixAndSeven ==
  \A r \in Requests :
    Composed(r) => Len(NotesOf(req[r].doc)) = NotesCount(req[r].variant)

\* what the code does: the list depends on the variant and the language only,
\* and has 5 items in the pre-service-only variant, 7 in the full one
C25_NotesFixedFiveAndSeven ==
  \A r \in Requests :
    Composed(r) =>
      LET notes == NotesOf(req[r].doc)
      IN  /\ notes = notesList(req[r].variant, req[r].language).ul
          /\ Len(notes) = IF req[r].variant = "full" THEN 7 ELSE 5

\* a pre-service-only tree made from a filled form with a ticked flag
C25_SingleFilled ==
  \E r \in Requests :
    /\ Composed(r) /\ req[r].variant = "single"
    /\ Filled(req[r].formData) # {} /\ Checked(req[r].checkboxes) # {}
    /\ Len(NotesOf(req[r].doc)) = 5

-----------------------------------------------------------------------------
\* a <= k for a rational a and an integer k
RatLE(a, k) == ~RatGT(a, k)

\* C26: on the resize path, for every decoded size W x H with W, H >= 1, the
\* target width and height are at most 800 and in the ratio W : H; when W and
\* H are both at most 800 the target is W x H, the image is re-encoded
\* without scaling.
C26_TargetWithinCapSameRatio ==
  \A ri \in Loads :
    LET load == LoadOf(ri)
    IN  load.result.kind = "jpeg" =>
          LET width == load.result.drawWidth
              height == load.result.drawHeight
          IN  /\ load.imgWidth >= 1 /\ load.imgHeight >= 1
              /\ RatLE(width, 800) /\ RatLE(height, 800)
              /\ RatDiv(width, height) = Rat(load.imgWidth, load.imgHeight)
              /\ (load.imgWidth <= 800 /\ load.imgHeight <= 800) =>
                    /\ width = Num(load.imgWidth)
                    /\ height = Num(load.imgHeight)

\* an image no wider than 800 but taller: only the second cap applies and the
\* width shrinks with the height
C26_Witness ==
  \E ri \in Loads :
    LET load == LoadOf(ri)
    IN  /\ load.result.kind = "jpeg"
        /\ load.imgWidth <= 800 /\ load.imgHeight > 800
        /\ load.result.drawHeight = Num(800)
        /\ load.result.drawWidth.n < load.imgWidth * load.result.drawWidth.d

\* an image within the cap on both sides, re-encoded at its own size
C26_WitnessUnscaled ==
  \E ri \in Loads :
    LET load == LoadOf(ri)
    IN  /\ load.result.kind = "jpeg"
        /\ load.imgWidth = 800 /\ load.imgHeight = 401
        /\ load.result.drawWidth = Num(800) /\ load.result.drawHeight = Num(401)

-----------------------------------------------------------------------------
\* C27: after any sequence of submits, completions, failures, downloads and
\* closes, the preview is open exactly when a preview URL is held: the modal
\* is never open without a URL to display, and no URL is held while it is
\* closed.
C27_OpenIffUrlHeld == isPreviewOpen <=> pdfPreviewUrl # NoUrl

\* the preview open on a URL after a failure of the other request and a
\* download
C27_Witness ==
  /\ isPreviewOpen /\ pdfPreviewUrl # NoUrl
  /\ Len(alerts) > 0
  /\ downloads # {}

\* the preview closed again, with nothing held, after it showed a document
C27_WitnessClosed ==
  /\ ~isPreviewOpen /\ pdfPreviewUrl = NoUrl
  /\ \E r \in DOMAIN objectUrls : objectUrls[r] = "revoked"

-----------------------------------------------------------------------------
\* C28: no revoked blob URL is ever used: a held pdfPreviewUrl is a URL that
\* was created and has not been revoked, so the iframe of the preview never
\* shows a revoked URL, and every download was of a URL live at the click,
\* with overlapping requests and closes interleaved.
C28_NoRevokedUrlUsed ==
  /\ pdfPreviewUrl # NoUrl => objectUrls[pdfPreviewUrl] = "live"
  /\ \A d \in downloads : d.state = "live"

\* a download from the preview of one request after the URL of the other was
\* revoked by a close
C28_Witness ==
  /\ isPreviewOpen /\ pdfPreviewUrl # NoUrl
  /\ \E r \in DOMAIN objectUrls : r # pdfPreviewUrl /\ objectUrls[r] = "revoked"
  /\ [href |-> pdfPreviewUrl, state |-> "live"] \in downloads

-----------------------------------------------------------------------------
\* the step in which the blob of form request r arrives
Completes(r) ==
  /\ req[r].caller = "form"
  /\ req[r].pc = "rendering"
  /\ req'[r].pc = "resolved"

\* C29: with overlapping generate requests that both succeed, the preview
\* shows the document of the request that completed last: each successful
\* completion sets pdfPreviewUrl to the URL of its own blob and opens the
\* preview, whatever was shown or closed before, and nothing but a
\* completion or a close changes what is shown.
C29_Step ==
  /\ \A r \in DOMAIN req :
        Completes(r) =>
          /\ pdfPreviewUrl' = r
          /\ isPreviewOpen'
          /\ objectUrls'[r] = "live"
  /\ pdfPreviewUrl' # pdfPreviewUrl =>
        \/ pdfPreviewUrl' = NoUrl
        \/ Completes(pdfPreviewUrl')

C29_LastCompletionShown == [][C29_Step]_vars

\* two overlapping requests, the second-submitted completed first and its
\* preview was never closed; the preview shows the first-submitted, which
\* completed last
C29_Witness ==
  /\ isPreviewOpen /\ pdfPreviewUrl = 1
  /\ req[1].pc = "resolved" /\ req[2].pc = "resolved"
  /\ objectUrls[2] = "live"

\* the preview was closed between the two completions
C29_WitnessClosedBetween ==
  /\ isPreviewOpen /\ pdfPreviewUrl = 1
  /\ req[1].pc = "resolved" /\ req[2].pc = "resolved"
  /\ objectUrls[2] = "revoked"

-----------------------------------------------------------------------------
\* a call that returned null
ReturnedNull(r) == req[r].pc \in {"null", "resolvedNull"}

C30_NothingStarted ==
  \A r \in Requests :
    ReturnedNull(r) =>
      /\ \A i \in Images : req[r].loads[i] = NoLoad
      /\ req[r].engine = "none"
      /\ req[r].doc = NoDoc
      /\ NoticesOf(r) = 0
      /\ objectUrls[r] = "none"

C30_Step ==
  \A r \in Requests :
    /\ (req[r].pc = "idle" /\ req'[r].pc = "null") =>
          /\ pdfMakeFonts' = pdfMakeFonts
          /\ alerts' = alerts
    /\ (req[r].pc = "null" /\ req'[r].pc = "resolvedNull") =>
          /\ isPreviewOpen' = isPreviewOpen
          /\ pdfPreviewUrl' = pdfPreviewUrl
          /\ objectUrls' = objectUrls
          /\ alerts' = alerts
          /\ pdfMakeFonts' = pdfMakeFonts

\* C30: generatePDF called where window is undefined returns null without
\* fetching an image, without touching the engine's font configuration and
\* without invoking the engine; handleSubmit on a null result leaves the
\* preview state as it was and shows no failure notice.
C30_NullOutsideBrowser == [](C30_NothingStarted) /\ [][C30_Step]_vars

\* handleSubmit went on after a null result for a filled form
C30_Witness ==
  \E r \in Requests :
    /\ req[r].pc = "resolvedNull" /\ req[r].caller = "form"
    /\ Filled(req[r].formData) # {}
    /\ ~isPreviewOpen /\ pdfPreviewUrl = NoUrl /\ alerts = <<>>
    /\ pdfMakeFonts = {}

\* the single-flow variant returned null to another caller
C30_WitnessSingle ==
  \E r \in Requests :
    /\ req[r].pc = "null" /\ req[r].caller = "direct" /\ req[r].variant = "single"
    /\ pdfMakeFonts = {}

====
